---- MODULE Spec2Model ----
(***************************************************************************)
(* Model of the two artifacts of the repository:                           *)
(*   - static/js/main.js: navigateTo, safeSubmit, the DOMContentLoaded     *)
(*     hook and initializeGlobalFeatures, run against a small browser      *)
(*     (a document holding form elements, window.location, console, alert) *)
(*   - database/schema_postgresql.sql: the four tables, their UNIQUE and   *)
(*     REFERENCES constraints, the SERIAL keys and the two seed rows.      *)
(* The two artifacts share no state; SpecJs and SpecDb are their           *)
(* specifications.                                                         *)
(***************************************************************************)
EXTENDS Integers, Sequences, FiniteSets, TLC

\* ------------------------------------------------------------------ bounds

\* Form elements that can exist; their number is their document order.
NumForms == 2
\* Distinct callback functions a page passes to safeSubmit.
NumCallbacks == 2
\* Browser operations performed in one behaviour.
MaxJsSteps == 5
\* Statements run against the database after the schema script.
MaxDbOps == 4

Forms == 1..NumForms
Callbacks == 1..NumCallbacks
FormIds == {"loginForm", "transactionForm"}
Urls == {"/dashboard", "/transactions"}
Null == 0

VARIABLES
    scriptLoaded,   \* main.js has been evaluated (its functions and hook exist)
    doc,            \* the form elements currently in the document
    elemId,         \* the id attribute of each form element
    listeners,      \* per element, its submit listeners: the callback each closes over
    href,           \* window.location.href as last assigned ("" before any assignment)
    console,        \* the console output, oldest first
    alerts,         \* the alert dialogs shown, oldest first
    calls,          \* history: every safeSubmit call with the document it ran against
    hookedEvents,   \* history: DOMContentLoaded events dispatched while the hook was registered
    last,           \* history: the last operation, its inputs and the state before it
    jsSteps         \* number of browser operations so far

jsVars == <<scriptLoaded, doc, elemId, listeners, href, console, alerts, calls,
            hookedEvents, last, jsSteps>>

VARIABLES
    dbPc,           \* the next statement of schema_postgresql.sql (1..5), 6 once it has run
    tables,         \* the tables created so far
    cardholders,    \* the rows of each table
    transactions,
    fraudLogs,
    cases,
    serial,         \* per table, the last value its SERIAL sequence handed out
    dbLast,         \* history: the last statement, its inputs, its error and the rows before it
    dbOps           \* number of statements run after the script

dbVars == <<dbPc, tables, cardholders, transactions, fraudLogs, cases, serial,
            dbLast, dbOps>>

vars == <<jsVars, dbVars>>

\* ---------------------------------------------------------------- messages

LogEntry(level, msg) == [level |-> level, msg |-> msg]

MsgLoaded == LogEntry("log", "FraudGuard AI System Loaded")
MsgNavError == LogEntry("error", "Navigation error:")
MsgSubmitError == LogEntry("error", "Form submission error:")
MsgPageLoaded == LogEntry("log", "Page loaded successfully")
MsgInitFeatures == LogEntry("log", "Initializing global features...")
AlertNav == "Navigation error. Please refresh the page."
AlertSubmit == "Error submitting form. Please try again."

\* The part of the window a wrapper can change, and the exceptions that
\* escaped the code run against it.
Window == [href |-> href, console |-> console, alerts |-> alerts, uncaught |-> 0]

\* ------------------------------------------------------------ navigateTo

\* navigateTo without its try/catch: the setter's exception escapes.
NavigateToUnguarded(url, setterThrows, w) ==
    IF setterThrows THEN [w EXCEPT !.uncaught = @ + 1]
    ELSE [w EXCEPT !.href = url]

\* navigateTo(url): the assignment to window.location.href either succeeds or
\* throws (setterThrows, the environment's choice); the catch block logs and alerts.
NavigateTo(url, setterThrows, w) ==
    IF setterThrows
    THEN [w EXCEPT !.console = Append(@, MsgNavError),
                   !.alerts = Append(@, AlertNav)]
    ELSE [w EXCEPT !.href = url]

\* ------------------------------------------------------------ safeSubmit

\* A lookup that also finds elements that are not in the document.
GetElementByIdAnywhere(id, d) ==
    IF \E e \in Forms : elemId[e] = id
    THEN CHOOSE e \in Forms : elemId[e] = id /\ \A f \in Forms : elemId[f] = id => e <= f
    ELSE Null

\* document.getElementById(formId): the first element in document order with
\* that id, or null.
GetElementById(id, d) ==
    IF \E e \in d : elemId[e] = id
    THEN CHOOSE e \in d : elemId[e] = id /\ \A f \in d : elemId[f] = id => e <= f
    ELSE Null

\* The state of one submit event while its listeners run.
NewEvent(w) ==
    [defaultPrevented |-> FALSE, invoked |-> <<>>, console |-> w.console,
     alerts |-> w.alerts, uncaught |-> 0]

\* The listener with preventDefault moved behind the callback, inside the try.
SubmitListenerPreventLate(cb, cbThrows, ev) ==
    IF cbThrows
    THEN [ev EXCEPT !.invoked = Append(@, cb),
                    !.console = Append(@, MsgSubmitError),
                    !.alerts = Append(@, AlertSubmit)]
    ELSE [ev EXCEPT !.invoked = Append(@, cb), !.defaultPrevented = TRUE]

\* The listener without its try/catch: the callback's exception escapes.
SubmitListenerUnguarded(cb, cbThrows, ev) ==
    IF cbThrows
    THEN [ev EXCEPT !.defaultPrevented = TRUE, !.invoked = Append(@, cb),
                    !.uncaught = @ + 1]
    ELSE [ev EXCEPT !.defaultPrevented = TRUE, !.invoked = Append(@, cb)]

\* The listener safeSubmit registers: e.preventDefault(), then callback() in a
\* try whose catch logs and alerts.
SubmitListener(cb, cbThrows, ev) ==
    IF cbThrows
    THEN [ev EXCEPT !.defaultPrevented = TRUE, !.invoked = Append(@, cb),
                    !.console = Append(@, MsgSubmitError),
                    !.alerts = Append(@, AlertSubmit)]
    ELSE [ev EXCEPT !.defaultPrevented = TRUE, !.invoked = Append(@, cb)]

\* addEventListener that replaces the element's listener (as form.onsubmit = f would).
AddEventListenerReplacing(ls, form, cb) ==
    [ls EXCEPT ![form] = <<cb>>]

\* form.addEventListener('submit', function(e) {...}): a fresh closure each
\* call, so it is appended even when the same callback is registered again.
AddEventListener(ls, form, cb) ==
    [ls EXCEPT ![form] = Append(@, cb)]

\* safeSubmit without the if (form) test: null.addEventListener throws.
SafeSubmitUnchecked(formId, cb, d, ls) ==
    LET form == GetElementById(formId, d) IN
    IF form # Null
    THEN [listeners |-> AddEventListener(ls, form, cb), uncaught |-> 0]
    ELSE [listeners |-> ls, uncaught |-> 1]

\* safeSubmit(formId, callback) against document d and listener table ls.
SafeSubmit(formId, cb, d, ls) ==
    LET form == GetElementById(formId, d) IN
    IF form # Null
    THEN [listeners |-> AddEventListener(ls, form, cb), uncaught |-> 0]
    ELSE [listeners |-> ls, uncaught |-> 0]

\* The browser's dispatch of one event to the listeners ls of its target, in
\* registration order; throws[i] tells whether the i-th listener's callback throws.
RECURSIVE Dispatch(_, _, _, _)
Dispatch(ls, throws, i, ev) ==
    IF i > Len(ls) THEN ev
    ELSE Dispatch(ls, throws, i + 1, SubmitListener(ls[i], throws[i], ev))

\* ------------------------------------------------------ page-load hook

\* initializeGlobalFeatures as an empty placeholder.
InitializeGlobalFeaturesEmpty(con) == con

\* initializeGlobalFeatures(): logs one message.
InitializeGlobalFeatures(con) == Append(con, MsgInitFeatures)

\* The DOMContentLoaded listener: logs, then calls initializeGlobalFeatures.
PageLoadHook(con) == InitializeGlobalFeatures(Append(con, MsgPageLoaded))

\* ------------------------------------------------------------- actions

JsInit ==
    /\ scriptLoaded = FALSE
    /\ doc = {}
    /\ elemId \in [Forms -> FormIds]
    /\ listeners = [e \in Forms |-> <<>>]
    /\ href = ""
    /\ console = <<>>
    /\ alerts = <<>>
    /\ calls = <<>>
    /\ hookedEvents = 0
    /\ last = [op |-> "none"]
    /\ jsSteps = 0

Before == [console |-> console, alerts |-> alerts, href |-> href,
           listeners |-> listeners, doc |-> doc, scriptLoaded |-> scriptLoaded]

\* The page evaluates main.js: the top-level console.log runs and the
\* DOMContentLoaded listener is registered.
LoadScript ==
    /\ jsSteps < MaxJsSteps
    /\ ~scriptLoaded
    /\ scriptLoaded' = TRUE
    /\ console' = Append(console, MsgLoaded)
    /\ last' = [op |-> "loadScript", before |-> Before]
    /\ jsSteps' = jsSteps + 1
    /\ UNCHANGED <<doc, elemId, listeners, href, alerts, calls, hookedEvents>>
    /\ UNCHANGED dbVars

\* A DOMContentLoaded event reaches the document.
DOMContentLoaded ==
    /\ jsSteps < MaxJsSteps
    /\ console' = IF scriptLoaded THEN PageLoadHook(console) ELSE console
    /\ hookedEvents' = IF scriptLoaded THEN hookedEvents + 1 ELSE hookedEvents
    /\ last' = [op |-> "DOMContentLoaded", before |-> Before]
    /\ jsSteps' = jsSteps + 1
    /\ UNCHANGED <<scriptLoaded, doc, elemId, listeners, href, alerts, calls>>
    /\ UNCHANGED dbVars

\* A form element is inserted into the document.
AddForm(e) ==
    /\ jsSteps < MaxJsSteps
    /\ e \notin doc
    /\ doc' = doc \cup {e}
    /\ last' = [op |-> "addForm", form |-> e, before |-> Before]
    /\ jsSteps' = jsSteps + 1
    /\ UNCHANGED <<scriptLoaded, elemId, listeners, href, console, alerts, calls,
                   hookedEvents>>
    /\ UNCHANGED dbVars

\* A form element is removed from the document (it keeps its listeners).
RemoveForm(e) ==
    /\ jsSteps < MaxJsSteps
    /\ e \in doc
    /\ doc' = doc \ {e}
    /\ last' = [op |-> "removeForm", form |-> e, before |-> Before]
    /\ jsSteps' = jsSteps + 1
    /\ UNCHANGED <<scriptLoaded, elemId, listeners, href, console, alerts, calls,
                   hookedEvents>>
    /\ UNCHANGED dbVars

\* The page calls navigateTo(url).
CallNavigateTo(url, setterThrows) ==
    /\ jsSteps < MaxJsSteps
    /\ scriptLoaded
    /\ LET w == NavigateTo(url, setterThrows, Window) IN
        /\ href' = w.href
        /\ console' = w.console
        /\ alerts' = w.alerts
        /\ last' = [op |-> "navigateTo", url |-> url, setterThrows |-> setterThrows,
                    uncaught |-> w.uncaught, before |-> Before]
    /\ jsSteps' = jsSteps + 1
    /\ UNCHANGED <<scriptLoaded, doc, elemId, listeners, calls, hookedEvents>>
    /\ UNCHANGED dbVars

\* The page calls safeSubmit(formId, cb).
CallSafeSubmit(formId, cb) ==
    /\ jsSteps < MaxJsSteps
    /\ scriptLoaded
    /\ LET r == SafeSubmit(formId, cb, doc, listeners) IN
        /\ listeners' = r.listeners
        /\ last' = [op |-> "safeSubmit", formId |-> formId, callback |-> cb,
                    uncaught |-> r.uncaught, before |-> Before]
    /\ calls' = Append(calls, [formId |-> formId, callback |-> cb, doc |-> doc])
    /\ jsSteps' = jsSteps + 1
    /\ UNCHANGED <<scriptLoaded, doc, elemId, href, console, alerts, hookedEvents>>
    /\ UNCHANGED dbVars

\* A submit event is dispatched to form e of the document; throws says which
\* of the callbacks it reaches throw.
Submit(e, throws) ==
    /\ jsSteps < MaxJsSteps
    /\ e \in doc
    /\ LET ev == Dispatch(listeners[e], throws, 1, NewEvent(Window)) IN
        /\ console' = ev.console
        /\ alerts' = ev.alerts
        /\ last' = [op |-> "submit", target |-> e, throws |-> throws,
                    defaultPrevented |-> ev.defaultPrevented,
                    invoked |-> ev.invoked, uncaught |-> ev.uncaught,
                    before |-> Before]
    /\ jsSteps' = jsSteps + 1
    /\ UNCHANGED <<scriptLoaded, doc, elemId, listeners, href, calls, hookedEvents>>
    /\ UNCHANGED dbVars

JsNext ==
    \/ LoadScript
    \/ DOMContentLoaded
    \/ \E e \in Forms : AddForm(e)
    \/ \E e \in Forms : RemoveForm(e)
    \/ \E url \in Urls, t \in BOOLEAN : CallNavigateTo(url, t)
    \/ \E id \in FormIds, cb \in Callbacks : CallSafeSubmit(id, cb)
    \/ \E e \in Forms : \E throws \in [1..Len(listeners[e]) -> BOOLEAN] : Submit(e, throws)

\* ------------------------------------------------ schema_postgresql.sql

TableNames == {"cardholders", "transactions", "fraud_detection_logs", "case_management"}

\* JSON values: a number keeps its digits and scale (85.50 is 8550 with
\* scale 2), an array its elements in order.
JNum(digits, scale) == [type |-> "number", digits |-> digits, scale |-> scale]
JArr(items) == [type |-> "array", items |-> items]

\* A member's value as JSONB stores it: numbers as numerics of the written
\* scale, arrays element by element in the written order.
JsonbValue(v) ==
    IF v.type = "array" THEN JArr([i \in 1..Len(v.items) |-> v.items[i]]) ELSE v

\* A conversion that builds arrays back to front.
JsonbInReversing(members) ==
    LET keys == {members[i].key : i \in 1..Len(members)}
        LastOf(k) == CHOOSE i \in 1..Len(members) :
                        members[i].key = k /\ \A j \in 1..Len(members) : members[j].key = k => j <= i
        Val(v) == IF v.type = "array"
                  THEN JArr([i \in 1..Len(v.items) |-> v.items[Len(v.items) + 1 - i]])
                  ELSE v
    IN [k \in keys |-> Val(members[LastOf(k)].value)]

\* The JSONB input conversion of an object literal, given as its members in
\* the order written: the object keeps one value per key (the last written
\* one) and no member order.
JsonbIn(members) ==
    LET keys == {members[i].key : i \in 1..Len(members)}
        LastOf(k) == CHOOSE i \in 1..Len(members) :
                        members[i].key = k /\ \A j \in 1..Len(members) : members[j].key = k => j <= i
    IN [k \in keys |-> JsonbValue(members[LastOf(k)].value)]

Member(k, v) == [key |-> k, value |-> v]

\* The two behavior_profile literals of the seed INSERT.
ProfileJohn ==
    <<Member("avg_transaction", JNum(8550, 2)),
      Member("usual_merchants", JArr(<<"retail", "grocery">>))>>
ProfileSarah ==
    <<Member("avg_transaction", JNum(12075, 2)),
      Member("usual_merchants", JArr(<<"online", "travel">>))>>
\* A literal a later insert may carry: one key written twice.
ProfileOther ==
    <<Member("avg_transaction", JNum(100, 1)),
      Member("avg_transaction", JNum(2000, 2))>>

\* The VALUES of the seed INSERT, in order.
SeedValues ==
    <<[name |-> "John Smith", card_number |-> "4111111111111111",
       account_number |-> "ACC001", behavior_profile |-> ProfileJohn],
      [name |-> "Sarah Johnson", card_number |-> "4222222222222222",
       account_number |-> "ACC002", behavior_profile |-> ProfileSarah]>>

\* The values later inserts into cardholders draw from.
CardNumbers == {"4111111111111111", "4222222222222222", "4333333333333333"}
NewValues ==
    {[name |-> "New Holder", card_number |-> c, account_number |-> "ACC003",
      behavior_profile |-> ProfileOther] : c \in CardNumbers}

\* A schema whose card_number column is not UNIQUE.
NoUniqueViolation(rows, card) == FALSE

\* card_number VARCHAR(16) NOT NULL UNIQUE: a row with the number exists.
UniqueViolation(rows, card) == \E r \in rows : r.card_number = card

\* A schema whose columns carry no REFERENCES.
NoForeignKeyViolation(parents, key, id) == FALSE

\* REFERENCES parent(key): no parent row carries the referenced key.
ForeignKeyViolation(parents, key, id) == ~(\E r \in parents : r[key] = id)

\* REFERENCES without ON DELETE (NO ACTION): a child row still references the key.
StillReferenced(children, key, id) == \E r \in children : r[key] = id

Rows == [cardholders |-> cardholders, transactions |-> transactions,
         fraudLogs |-> fraudLogs, cases |-> cases]

NextVal(t) == serial[t] + 1

\* INSERT of a sequence of rows into cardholders as one statement: every row
\* draws its cardholder_id from the sequence; one violation fails the whole
\* statement, whose sequence values stay consumed.
RECURSIVE InsertCardholders(_, _, _)
InsertCardholders(values, rows, seq) ==
    IF values = <<>> THEN [error |-> "none", rows |-> rows, seq |-> seq]
    ELSE LET v == Head(values) IN
         IF UniqueViolation(rows, v.card_number)
         THEN [error |-> "unique_violation", rows |-> rows, seq |-> seq + 1]
         ELSE InsertCardholders(Tail(values),
                rows \cup {[cardholder_id |-> seq + 1, name |-> v.name,
                            card_number |-> v.card_number,
                            account_number |-> v.account_number,
                            behavior_profile |-> JsonbIn(v.behavior_profile)]},
                seq + 1)

DbInit ==
    /\ dbPc = 1
    /\ tables = {}
    /\ cardholders = {}
    /\ transactions = {}
    /\ fraudLogs = {}
    /\ cases = {}
    /\ serial = [t \in TableNames |-> 0]
    /\ dbLast = [op |-> "none"]
    /\ dbOps = 0

\* Statements 1 to 4 of the script, in file order: a CREATE TABLE needs the
\* tables it REFERENCES.
CreateTable(n, t, refs) ==
    /\ dbPc = n
    /\ refs \subseteq tables
    /\ tables' = tables \cup {t}
    /\ dbPc' = n + 1
    /\ dbLast' = [op |-> "createTable", table |-> t]
    /\ UNCHANGED <<cardholders, transactions, fraudLogs, cases, serial, dbOps>>
    /\ UNCHANGED jsVars

\* Statement 5: the seed INSERT.
InsertSeed ==
    /\ dbPc = 5
    /\ "cardholders" \in tables
    /\ LET r == InsertCardholders(SeedValues, cardholders, serial["cardholders"]) IN
        /\ cardholders' = IF r.error = "none" THEN r.rows ELSE cardholders
        /\ serial' = [serial EXCEPT !["cardholders"] = r.seq]
        /\ dbLast' = [op |-> "seed", error |-> r.error, before |-> Rows]
    /\ dbPc' = 6
    /\ UNCHANGED <<tables, transactions, fraudLogs, cases, dbOps>>
    /\ UNCHANGED jsVars

\* A later INSERT INTO cardholders of one row.
InsertCardholder(v) ==
    /\ dbPc = 6 /\ dbOps < MaxDbOps
    /\ LET r == InsertCardholders(<<v>>, cardholders, serial["cardholders"]) IN
        /\ cardholders' = IF r.error = "none" THEN r.rows ELSE cardholders
        /\ serial' = [serial EXCEPT !["cardholders"] = r.seq]
        /\ dbLast' = [op |-> "insertCardholder", card_number |-> v.card_number,
                      error |-> r.error, before |-> Rows]
    /\ dbOps' = dbOps + 1
    /\ UNCHANGED <<dbPc, tables, transactions, fraudLogs, cases>>
    /\ UNCHANGED jsVars

\* INSERT INTO transactions of one row referencing cardholder id ch.
InsertTransaction(ch) ==
    /\ dbPc = 6 /\ dbOps < MaxDbOps
    /\ LET bad == ForeignKeyViolation(cardholders, "cardholder_id", ch) IN
        /\ transactions' =
              IF bad THEN transactions
              ELSE transactions \cup {[transaction_id |-> NextVal("transactions"),
                                       cardholder_id |-> ch]}
        /\ dbLast' = [op |-> "insertTransaction", ref |-> ch,
                      error |-> IF bad THEN "foreign_key_violation" ELSE "none",
                      before |-> Rows]
    /\ serial' = [serial EXCEPT !["transactions"] = NextVal("transactions")]
    /\ dbOps' = dbOps + 1
    /\ UNCHANGED <<dbPc, tables, cardholders, fraudLogs, cases>>
    /\ UNCHANGED jsVars

\* INSERT INTO fraud_detection_logs of one row referencing transaction id tx.
InsertFraudLog(tx) ==
    /\ dbPc = 6 /\ dbOps < MaxDbOps
    /\ LET bad == ForeignKeyViolation(transactions, "transaction_id", tx) IN
        /\ fraudLogs' =
              IF bad THEN fraudLogs
              ELSE fraudLogs \cup {[log_id |-> NextVal("fraud_detection_logs"),
                                    transaction_id |-> tx]}
        /\ dbLast' = [op |-> "insertFraudLog", ref |-> tx,
                      error |-> IF bad THEN "foreign_key_violation" ELSE "none",
                      before |-> Rows]
    /\ serial' = [serial EXCEPT !["fraud_detection_logs"] = NextVal("fraud_detection_logs")]
    /\ dbOps' = dbOps + 1
    /\ UNCHANGED <<dbPc, tables, cardholders, transactions, cases>>
    /\ UNCHANGED jsVars

\* INSERT INTO case_management of one row referencing transaction id tx;
\* status takes its default.
InsertCase(tx) ==
    /\ dbPc = 6 /\ dbOps < MaxDbOps
    /\ LET bad == ForeignKeyViolation(transactions, "transaction_id", tx) IN
        /\ cases' =
              IF bad THEN cases
              ELSE cases \cup {[case_id |-> NextVal("case_management"),
                                transaction_id |-> tx, status |-> "Pending"]}
        /\ dbLast' = [op |-> "insertCase", ref |-> tx,
                      error |-> IF bad THEN "foreign_key_violation" ELSE "none",
                      before |-> Rows]
    /\ serial' = [serial EXCEPT !["case_management"] = NextVal("case_management")]
    /\ dbOps' = dbOps + 1
    /\ UNCHANGED <<dbPc, tables, cardholders, transactions, fraudLogs>>
    /\ UNCHANGED jsVars

\* DELETE FROM cardholders WHERE cardholder_id = ch.
DeleteCardholder(ch) ==
    /\ dbPc = 6 /\ dbOps < MaxDbOps
    /\ \E r \in cardholders : r.cardholder_id = ch
    /\ LET bad == StillReferenced(transactions, "cardholder_id", ch) IN
        /\ cardholders' = IF bad THEN cardholders
                          ELSE {r \in cardholders : r.cardholder_id # ch}
        /\ dbLast' = [op |-> "deleteCardholder", ref |-> ch,
                      error |-> IF bad THEN "foreign_key_violation" ELSE "none",
                      before |-> Rows]
    /\ dbOps' = dbOps + 1
    /\ UNCHANGED <<dbPc, tables, transactions, fraudLogs, cases, serial>>
    /\ UNCHANGED jsVars

\* DELETE FROM transactions WHERE transaction_id = tx.
DeleteTransaction(tx) ==
    /\ dbPc = 6 /\ dbOps < MaxDbOps
    /\ \E r \in transactions : r.transaction_id = tx
    /\ LET bad == \/ StillReferenced(fraudLogs, "transaction_id", tx)
                  \/ StillReferenced(cases, "transaction_id", tx) IN
        /\ transactions' = IF bad THEN transactions
                           ELSE {r \in transactions : r.transaction_id # tx}
        /\ dbLast' = [op |-> "deleteTransaction", ref |-> tx,
                      error |-> IF bad THEN "foreign_key_violation" ELSE "none",
                      before |-> Rows]
    /\ dbOps' = dbOps + 1
    /\ UNCHANGED <<dbPc, tables, cardholders, fraudLogs, cases, serial>>
    /\ UNCHANGED jsVars

\* The keys a statement may name: every key handed out so far and one never
\* handed out.
KeysOf(t) == 1..(serial[t] + 1)

DbNext ==
    \/ CreateTable(1, "cardholders", {})
    \/ CreateTable(2, "transactions", {"cardholders"})
    \/ CreateTable(3, "fraud_detection_logs", {"transactions"})
    \/ CreateTable(4, "case_management", {"transactions"})
    \/ InsertSeed
    \/ \E v \in NewValues : InsertCardholder(v)
    \/ \E ch \in KeysOf("cardholders") : InsertTransaction(ch)
    \/ \E tx \in KeysOf("transactions") : InsertFraudLog(tx)
    \/ \E tx \in KeysOf("transactions") : InsertCase(tx)
    \/ \E ch \in KeysOf("cardholders") : DeleteCardholder(ch)
    \/ \E tx \in KeysOf("transactions") : DeleteTransaction(tx)

\* ------------------------------------------------------ specifications

Init == JsInit /\ DbInit

\* The page: main.js against the browser.
SpecJs == Init /\ [][JsNext]_vars

\* The database: the schema script, then later statements.
SpecDb == Init /\ [][DbNext]_vars

\* ------------------------------------------------ properties of main.js

\* The element a recorded safeSubmit call found: the first element of the
\* document of that time carrying the id, Null when there was none.
Resolved(c) ==
    IF \E e \in c.doc : elemId[e] = c.formId
    THEN CHOOSE e \in c.doc :
            elemId[e] = c.formId /\ \A f \in c.doc : elemId[f] = c.formId => e <= f
    ELSE Null

\* The callbacks registered on element e by the calls so far, in call order.
RegisteredCallbacks(e) ==
    LET OnE(c) == Resolved(c) = e
        sel == SelectSeq(calls, OnE)
    IN [i \in 1..Len(sel) |-> sel[i].callback]

\* What an operation appended to a sequence that only grows.
Added(now, before) == SubSeq(now, Len(before) + 1, Len(now))

IsPrefix(p, s) == Len(p) <= Len(s) /\ SubSeq(s, 1, Len(p)) = p

NumThrows(throws) == Cardinality({i \in DOMAIN throws : throws[i]})

Count(s, x) == Cardinality({i \in DOMAIN s : s[i] = x})

\* C1: every submit event dispatched to a form on which safeSubmit registered
\* a listener has had preventDefault called by the time its listeners have
\* returned, whether the callbacks returned or threw.
C1_DefaultAlwaysPrevented ==
    (last.op = "submit" /\ RegisteredCallbacks(last.target) # <<>>)
        => last.defaultPrevented

\* A guarded form was submitted, its only callback threw, and the default
\* submission was prevented.
C1_Witness ==
    /\ last.op = "submit"
    /\ Len(RegisteredCallbacks(last.target)) = 1
    /\ last.throws[1]
    /\ last.defaultPrevented

\* C2: a call navigateTo(url) never lets an exception escape, and either the
\* assignment succeeded, the location is url and nothing was logged or
\* alerted, or it threw and exactly one error was logged and one alert shown.
C2_NavigateOutcome ==
    last.op = "navigateTo" =>
        /\ last.uncaught = 0
        /\ \/ /\ ~last.setterThrows
              /\ href = last.url
              /\ console = last.before.console
              /\ alerts = last.before.alerts
           \/ /\ last.setterThrows
              /\ console = Append(last.before.console, MsgNavError)
              /\ alerts = Append(last.before.alerts, AlertNav)

\* navigateTo ran in an environment where the assignment throws, after an
\* earlier navigation had succeeded.
C2_Witness ==
    /\ last.op = "navigateTo"
    /\ last.setterThrows
    /\ last.before.href # ""
    /\ Len(alerts) = 1

\* C3: every exception thrown by a callback during a submit event is caught in
\* the listener: each throwing callback yields exactly one logged error and one
\* alert, none escapes the listener, and callbacks that return yield neither.
C3_CallbackErrorsCaught ==
    last.op = "submit" =>
        /\ last.uncaught = 0
        /\ IsPrefix(last.before.console, console)
        /\ IsPrefix(last.before.alerts, alerts)
        /\ Added(console, last.before.console)
             = [i \in 1..NumThrows(last.throws) |-> MsgSubmitError]
        /\ Added(alerts, last.before.alerts)
             = [i \in 1..NumThrows(last.throws) |-> AlertSubmit]

\* One submit event reached a callback that threw and one that returned.
C3_Witness ==
    /\ last.op = "submit"
    /\ Len(last.invoked) = 2
    /\ NumThrows(last.throws) = 1
    /\ Len(alerts) = 1

\* C4: safeSubmit called with an id no element of the document carries changes
\* nothing: no listener on any element, no log, no alert, no exception.
C4_MissingFormNoOp ==
    (last.op = "safeSubmit"
        /\ ~(\E e \in last.before.doc : elemId[e] = last.formId))
    => /\ listeners = last.before.listeners
       /\ console = last.before.console
       /\ alerts = last.before.alerts
       /\ href = last.before.href
       /\ last.uncaught = 0

\* safeSubmit was called with an id that only an element outside the document
\* carries, while another form was in the document.
C4_Witness ==
    /\ last.op = "safeSubmit"
    /\ last.before.doc # {}
    /\ ~(\E e \in last.before.doc : elemId[e] = last.formId)
    /\ \E e \in Forms : elemId[e] = last.formId

\* C7 as stated: on a DOMContentLoaded event the hook logs its fixed message
\* and the initialization placeholder it calls produces no log output.
C7_PlaceholderSilent ==
    (last.op = "DOMContentLoaded" /\ last.before.scriptLoaded)
        => console = Append(last.before.console, MsgPageLoaded)

\* C7 amended: on a DOMContentLoaded event the hook logs its fixed message and
\* then initializeGlobalFeatures logs one fixed message of its own and does
\* nothing else; the hook body has run exactly once per event dispatched after
\* the script registered it, and never otherwise.
C7_HookLogsTwice ==
    /\ Count(console, MsgPageLoaded) = hookedEvents
    /\ Count(console, MsgInitFeatures) = hookedEvents
    /\ last.op = "DOMContentLoaded" =>
        /\ console = IF last.before.scriptLoaded
                     THEN last.before.console \o <<MsgPageLoaded, MsgInitFeatures>>
                     ELSE last.before.console
        /\ alerts = last.before.alerts
        /\ href = last.before.href
        /\ listeners = last.before.listeners

\* One event arrived before the script was loaded and a second one after it.
C7_Witness ==
    /\ last.op = "DOMContentLoaded"
    /\ last.before.scriptLoaded
    /\ hookedEvents = 1
    /\ jsSteps = 3
    /\ last.before.console = <<MsgLoaded>>
    /\ last.before.doc = {}
    /\ console = <<MsgLoaded, MsgPageLoaded, MsgInitFeatures>>

\* C9: registrations accumulate and are never replaced or removed: every
\* element's listeners are the callbacks of all the safeSubmit calls that found
\* it, in call order, and one submit event invokes each of them exactly once in
\* that order, a throwing callback not stopping the later ones.
C9_RegistrationsAccumulate ==
    /\ \A e \in Forms : listeners[e] = RegisteredCallbacks(e)
    /\ last.op = "submit" =>
        /\ last.invoked = RegisteredCallbacks(last.target)
        /\ Len(Added(console, last.before.console)) = NumThrows(last.throws)
        /\ Len(Added(alerts, last.before.alerts)) = NumThrows(last.throws)

\* The same callback was registered twice on one form, and a submit invoked it
\* twice although the first invocation threw.
C9_Witness ==
    /\ last.op = "submit"
    /\ Len(last.invoked) = 2
    /\ last.invoked[1] = last.invoked[2]
    /\ last.throws[1]
    /\ ~last.throws[2]

\* C10: safeSubmit looks the form up once, at call time: when every safeSubmit
\* call naming a form's id was made while no element with that id was in the
\* document, a later submit of that form invokes no callback and its default
\* submission is not prevented.
C10_LookupOnlyAtCallTime ==
    (last.op = "submit"
        /\ \A i \in 1..Len(calls) :
              calls[i].formId = elemId[last.target]
                  => ~(\E e \in calls[i].doc : elemId[e] = calls[i].formId))
    => /\ last.invoked = <<>>
       /\ ~last.defaultPrevented

\* safeSubmit was called for an id before a form with that id was added, and
\* the form was then submitted.
C10_Witness ==
    /\ last.op = "submit"
    /\ \E i \in 1..Len(calls) :
          /\ calls[i].formId = elemId[last.target]
          /\ last.target \notin calls[i].doc
    /\ last.invoked = <<>>
    /\ ~last.defaultPrevented

\* ------------------------------------- properties of schema_postgresql.sql

\* Reading a member of a stored JSONB object (the -> operator), and its keys.
JsonbGet(obj, k) == obj[k]
JsonbKeys(obj) == DOMAIN obj

\* Two JSON numbers denote the same number.
NumEq(a, b) ==
    /\ a.type = "number" /\ b.type = "number"
    /\ a.digits * 10 ^ b.scale = b.digits * 10 ^ a.scale

ReadsAs(profile, avg, merchants) ==
    /\ JsonbKeys(profile) = {"avg_transaction", "usual_merchants"}
    /\ NumEq(JsonbGet(profile, "avg_transaction"), avg)
    /\ JsonbGet(profile, "usual_merchants") = JArr(merchants)

\* C5: no two rows of cardholders ever share a card_number, and an insert whose
\* card_number equals that of an existing row (the seed rows included) fails
\* with a uniqueness violation and leaves the table unchanged.
C5_CardNumberUnique ==
    /\ \A r1, r2 \in cardholders : r1.card_number = r2.card_number => r1 = r2
    /\ (dbLast.op = "insertCardholder"
          /\ \E r \in dbLast.before.cardholders : r.card_number = dbLast.card_number)
       => /\ dbLast.error = "unique_violation"
          /\ cardholders = dbLast.before.cardholders

\* With a third cardholder already inserted, an insert repeating the first
\* seed row's card number was refused.
C5_Witness ==
    /\ dbLast.op = "insertCardholder"
    /\ dbLast.card_number = "4111111111111111"
    /\ dbLast.error = "unique_violation"
    /\ Cardinality(cardholders) = 3

\* C6: in every database state each transactions row references an existing
\* cardholders row and each fraud_detection_logs and case_management row an
\* existing transactions row; an insert referencing a missing parent row fails
\* with a foreign-key violation and adds no row.
C6_ReferentialIntegrity ==
    /\ \A t \in transactions : \E c \in cardholders : c.cardholder_id = t.cardholder_id
    /\ \A l \in fraudLogs : \E t \in transactions : t.transaction_id = l.transaction_id
    /\ \A k \in cases : \E t \in transactions : t.transaction_id = k.transaction_id
    /\ (dbLast.op = "insertTransaction"
          /\ ~(\E c \in dbLast.before.cardholders : c.cardholder_id = dbLast.ref))
       => (dbLast.error = "foreign_key_violation" /\ Rows = dbLast.before)
    /\ (dbLast.op \in {"insertFraudLog", "insertCase"}
          /\ ~(\E t \in dbLast.before.transactions : t.transaction_id = dbLast.ref))
       => (dbLast.error = "foreign_key_violation" /\ Rows = dbLast.before)

\* A transaction naming the first seed cardholder, deleted before, was
\* refused, while a transaction of the other seed cardholder exists.
C6_Witness ==
    /\ dbLast.op = "insertTransaction"
    /\ dbLast.error = "foreign_key_violation"
    /\ dbLast.ref = 1
    /\ transactions # {}

====
